---------------------------- MODULE Spec2Model ----------------------------
(***************************************************************************)
(* The externally shared descriptor ring of crates/sel4-ddf/src/lib.rs:    *)
(* one RingBuffer record in shared memory (write_index, read_index, SIZE   *)
(* descriptor slots), a producer that runs enqueue and a consumer that     *)
(* runs dequeue.  Every volatile access of the ring memory is one step of  *)
(* the process that makes it, so that the two calls can interleave access  *)
(* by access (Spec); SpecSeq is the same steps with one call at a time.    *)
(***************************************************************************)
EXTENDS Integers, Sequences, FiniteSets, TLC

\* ------------------------------------------------------------- bounds
\* The source has SIZE = 512 = 2^9 slots and u32 indices (wrapping at 2^32).
\* The model keeps both powers of two, scaled: SIZE = 2^SizeBits slots and
\* indices wrapping at 2^IndexBits, few enough for the calls below to drive
\* both indices past the wrap.
SizeBits == 2
IndexBits == 3
\* Each side makes at most this many calls.
MaxEnqueueCalls == 8
MaxDequeueCalls == 9
MaxNotifyCalls == 2
MaxItems == 3

\* ------------------------------------------------------------- constants
SIZE_not_power_of_two == 2 ^ SizeBits - 1

SIZE == 2 ^ SizeBits

\* Wrapping<u32>: the modulus of the index arithmetic.
WORD == 2 ^ IndexBits

Wrapping(n) == n % WORD

\* ------------------------------------------------------------- Descriptor
\* A constructor that mixes up the two machine-word fields.
Descriptor_new_swapped(encoded_addr, len, cookie) ==
    [encoded_addr |-> cookie, len |-> len, padding |-> <<0, 0, 0, 0>>,
     cookie |-> encoded_addr]

\* Descriptor::new: the record as laid out in memory.
Descriptor_new(encoded_addr, len, cookie) ==
    [encoded_addr |-> encoded_addr, len |-> len, padding |-> <<0, 0, 0, 0>>,
     cookie |-> cookie]

encoded_addr(desc) == desc.encoded_addr

len(desc) == desc.len

cookie(desc) == desc.cookie

\* The (A, L, K) of a descriptor, through its accessors.
Fields(desc) == <<encoded_addr(desc), len(desc), cookie(desc)>>

\* The (A, L, K) triples the callers pass to Descriptor::new; len 0 is valid.
InputArgs == {<<1, 0, 100>>, <<2, 20, 200>>}

\* What the slots may hold before anything was enqueued: initialize() writes
\* the two indices only, the slots keep the bytes the region had: all zero,
\* or records left over from an earlier use (padding bytes included), one of
\* which has the fields of a Descriptor a caller may pass.
StaleRegions(slots) ==
    {[s \in slots |->
        [encoded_addr |-> 0, len |-> 0, padding |-> <<0, 0, 0, 0>>,
         cookie |-> 0]],
     [s \in slots |->
        [encoded_addr |-> s + 1, len |-> 0, padding |-> <<7, 7, 7, 7>>,
         cookie |-> 100 + s]]}

NoDesc == <<>>

\* ------------------------------------------------------------- RingBuffer
VARIABLES
    ring,       \* the shared RingBuffer record
    pcP,        \* producer: its position in enqueue ("idle": not in a call)
    pDesc,      \* producer: enqueue's argument desc
    pArgs,      \* history: the (A, L, K) that desc was built from
    pW,         \* producer: the write_index is_full has read
    pIndex,     \* producer: enqueue's local index
    pRes,       \* producer: what its last call returned
    pcC,        \* consumer: its position in dequeue
    cW,         \* consumer: the write_index is_empty has read
    cIndex,     \* consumer: dequeue's local index
    cDesc,      \* consumer: dequeue's local desc
    cRes,       \* consumer: what its last call returned
    cRet,       \* consumer: the Descriptor its last successful call returned
    \* history, read by the properties only
    enqd,       \* the (A, L, K) of the successful enqueues, in order
    deqd,       \* the (A, L, K) returned by the successful dequeues, in order
    nEnq,       \* enqueue calls made
    nDeq,       \* dequeue calls made
    pSnap,      \* the ring as it was when the current/last enqueue was called
    cSnap,      \* the ring as it was when the current/last dequeue was called
    pPend,      \* entries pending when the current/last enqueue was called
    cPend,      \* entries pending when the current/last dequeue was called
    slotSrc,    \* per slot: the (A, L, K) of the enqueue that wrote it last
    slotTaken,  \* per slot: the consumer has read it and advanced past it
    cSrc,       \* slotSrc of the slot dequeue read, at the read
    \* the RingBuffers pair: the variable ring is its free ring
    used,       \* the used ring of the pair
    constructed,\* "no" before RingBuffers::new, then "initialize" or "keep":
                \* whether new was called with initialize = true or false
    notified,   \* how many times the notifier closure has been invoked
    nNotify,    \* calls of notify() and notify_mut() made
    inOrder     \* history: the calls so far were made in the order of the
                \* worked example (its enqueues first, then its dequeues)

vars == <<ring, pcP, pDesc, pArgs, pW, pIndex, pRes, pcC, cW, cIndex, cDesc, cRes,
          cRet, enqd, deqd, nEnq, nDeq, pSnap, cSnap, pPend, cPend, slotSrc,
          slotTaken, cSrc, used, constructed, notified, nNotify, inOrder>>

prodVars == <<pcP, pDesc, pArgs, pW, pIndex, pRes>>
consVars == <<pcC, cW, cIndex, cDesc, cRes, cRet>>
otherVars == <<used, constructed, notified, nNotify, inOrder>>
histVars == <<enqd, deqd, nEnq, nDeq, pSnap, cSnap, pPend, cPend, slotSrc,
              slotTaken, cSrc>>

Slots == 0 .. SIZE - 1

write_index(r) == Wrapping(r.write_index)

read_index(r) == Wrapping(r.read_index)

set_write_index(r, index) == [r EXCEPT !.write_index = index]

\* A setter that stores to the other index.
set_read_index_wrong_field(r, index) == [r EXCEPT !.write_index = index]

set_read_index(r, index) == [r EXCEPT !.read_index = index]

initialize(r) == set_read_index(set_write_index(r, Wrapping(0)), Wrapping(0))

\* descriptor(index): the slot the index selects.
\* A slot selection that is off by one.
linear_index_shifted(index) == (index + 1) % SIZE

linear_index(index) == index % SIZE

descriptor_write_next_slot(r, index, desc) ==
    [r EXCEPT !.descriptors[linear_index(index + 1)] = desc]

descriptor_read_next_slot(r, index) == r.descriptors[linear_index(index + 1)]

descriptor_write(r, index, desc) ==
    [r EXCEPT !.descriptors[linear_index(index)] = desc]

descriptor_read(r, index) == r.descriptors[linear_index(index)]

has_zero_residue(length) == length % SIZE = Wrapping(0)

has_nonzero_residue(length) == length % SIZE # Wrapping(0)

\* is_empty and is_full on the two index values they have read.
is_empty_zero_difference(w, r) == Wrapping(w - r) = Wrapping(0)

\* An emptiness test with the + 1 margin of is_full.
is_empty_with_margin(w, r) ==
    has_nonzero_residue(Wrapping(Wrapping(w - r) + 1))

is_empty(w, r) == has_nonzero_residue(Wrapping(w - r))

\* A fullness test without the + 1 margin.
is_full_no_margin(w, r) == has_nonzero_residue(Wrapping(w - r))

\* A fullness test of the conventional kind: SIZE entries pending.
is_full_size_difference(w, r) == Wrapping(w - r) = SIZE

is_full(w, r) == has_nonzero_residue(Wrapping(Wrapping(w - r) + 1))

\* Entries enqueued and not yet dequeued.
Pending == Len(enqd) - Len(deqd)

\* ------------------------------------------------------------- RingBuffers
\* A RingBuffer region as ExternallySharedRingBuffer::new wraps it: whatever
\* bytes it holds, the two indices among the given values.
RawRings(indices) ==
    {[write_index |-> w, read_index |-> r, descriptors |-> d] :
        w \in indices, r \in indices, d \in StaleRegions(Slots)}

\* A constructor that initializes the free ring only.
RingBuffers_new_free_only(free, used_, initialize_) ==
    IF initialize_
      THEN [free |-> initialize(free), used |-> used_]
      ELSE [free |-> free, used |-> used_]

\* RingBuffers::new(free, used, notify, initialize): the two rings it leaves.
RingBuffers_new(free, used_, initialize_) ==
    IF initialize_
      THEN [free |-> initialize(free), used |-> initialize(used_)]
      ELSE [free |-> free, used |-> used_]

\* No call is in progress and none was made.
NoCalls ==
    /\ pcP = "idle" /\ pDesc = NoDesc /\ pArgs = NoDesc /\ pW = 0
    /\ pIndex = 0 /\ pRes = "none"
    /\ pcC = "idle" /\ cW = 0 /\ cIndex = 0 /\ cDesc = NoDesc
    /\ cRes = "none" /\ cRet = NoDesc
    /\ enqd = <<>> /\ deqd = <<>> /\ nEnq = 0 /\ nDeq = 0
    /\ pSnap = ring /\ cSnap = ring /\ pPend = 0 /\ cPend = 0
    /\ slotSrc = [s \in Slots |-> NoDesc]
    /\ slotTaken = [s \in Slots |-> FALSE]
    /\ cSrc = NoDesc
    /\ notified = 0 /\ nNotify = 0 /\ inOrder = TRUE

\* ------------------------------------------------------------- Init
\* A ring pair built with initialize = true over two regions of stale bytes
\* (both regions with the same stale pattern).
Init ==
    /\ \E f \in RawRings({0}), u \in RawRings({0}) :
         /\ f.descriptors = u.descriptors
         /\ ring = RingBuffers_new(f, u, TRUE).free
         /\ used = RingBuffers_new(f, u, TRUE).used
    /\ constructed = "initialize"
    /\ NoCalls

\* ------------------------------------------------------------- enqueue
\* The caller builds a Descriptor from a and calls enqueue(desc).
EnqueueEntry(a) ==
    /\ constructed # "no"
    /\ pcP = "idle"
    /\ pDesc' = Descriptor_new(a[1], a[2], a[3]) /\ pArgs' = a
    /\ pcP' = "is_full_write_index"
    /\ pRes' = "none"
    /\ pSnap' = ring /\ pPend' = Pending
    /\ UNCHANGED <<ring, pW, pIndex, consVars, enqd, deqd, nDeq, cSnap,
                   cPend, slotSrc, slotTaken, cSrc, used, constructed,
                   notified, nNotify>>

EnqueueCall ==
    /\ nEnq < MaxEnqueueCalls
    /\ \E a \in InputArgs : EnqueueEntry(a)
    /\ nEnq' = nEnq + 1
    /\ UNCHANGED inOrder

\* is_full: self.write_index()
EnqueueIsFullWriteIndex ==
    /\ pcP = "is_full_write_index"
    /\ pW' = write_index(ring)
    /\ pcP' = "is_full_read_index"
    /\ UNCHANGED <<otherVars, ring, pDesc, pArgs, pIndex, pRes, consVars, enqd, deqd, nEnq,
                   nDeq, pSnap, cSnap, pPend, cPend, slotSrc, slotTaken, cSrc>>

\* An enqueue that stores desc before it returns RingIsFull.
EnqueueIsFullReadIndex_writes_first ==
    /\ pcP = "is_full_read_index"
    /\ IF is_full(pW, read_index(ring))
         THEN /\ pcP' = "idle" /\ pRes' = "RingIsFull"
              /\ pDesc' = NoDesc /\ pArgs' = NoDesc
              /\ ring' = descriptor_write(ring, pW, pDesc)
         ELSE /\ pcP' = "write_index" /\ pRes' = pRes
              /\ pDesc' = pDesc /\ pArgs' = pArgs
              /\ ring' = ring
    /\ pW' = 0
    /\ UNCHANGED <<otherVars, pIndex, consVars, enqd, deqd, nEnq, nDeq, pSnap,
                   cSnap, pPend, cPend, slotSrc, slotTaken, cSrc>>

\* An enqueue that waits for the consumer while the ring is full.
EnqueueIsFullReadIndex_waits ==
    /\ pcP = "is_full_read_index"
    /\ ~is_full(pW, read_index(ring))
    /\ pcP' = "write_index"
    /\ pW' = 0
    /\ UNCHANGED <<otherVars, ring, pDesc, pArgs, pRes, pIndex, consVars, enqd,
                   deqd, nEnq, nDeq, pSnap, cSnap, pPend, cPend, slotSrc,
                   slotTaken, cSrc>>

\* is_full: self.read_index(), the residue test, and the early return.
EnqueueIsFullReadIndex ==
    /\ pcP = "is_full_read_index"
    /\ IF is_full(pW, read_index(ring))
         THEN /\ pcP' = "idle" /\ pRes' = "RingIsFull"
              /\ pDesc' = NoDesc /\ pArgs' = NoDesc
         ELSE /\ pcP' = "write_index" /\ pRes' = pRes
              /\ pDesc' = pDesc /\ pArgs' = pArgs
    /\ pW' = 0
    /\ UNCHANGED <<otherVars, ring, pIndex, consVars, enqd, deqd, nEnq, nDeq, pSnap,
                   cSnap, pPend, cPend, slotSrc, slotTaken, cSrc>>

\* let index = self.write_index();
EnqueueWriteIndex ==
    /\ pcP = "write_index"
    /\ pIndex' = write_index(ring)
    /\ pcP' = "descriptor_write"
    /\ UNCHANGED <<otherVars, ring, pDesc, pArgs, pW, pRes, consVars, enqd, deqd, nEnq, nDeq,
                   pSnap, cSnap, pPend, cPend, slotSrc, slotTaken, cSrc>>

\* self.descriptor(index).write(desc);
EnqueueDescriptorWrite ==
    /\ pcP = "descriptor_write"
    /\ ring' = descriptor_write(ring, pIndex, pDesc)
    /\ pcP' = "release"
    /\ slotSrc' = [slotSrc EXCEPT ![linear_index(pIndex)] = pArgs]
    /\ slotTaken' = [slotTaken EXCEPT ![linear_index(pIndex)] = FALSE]
    /\ UNCHANGED <<otherVars, pDesc, pArgs, pW, pIndex, pRes, consVars, enqd, deqd, nEnq, nDeq,
                   pSnap, cSnap, pPend, cPend, cSrc>>

\* release(); the steps of a process take effect in program order, which is
\* what the fence asks of the two stores around it.
EnqueueRelease ==
    /\ pcP = "release"
    /\ pcP' = "set_write_index"
    /\ UNCHANGED <<otherVars, ring, pDesc, pArgs, pW, pIndex, pRes, consVars, enqd, deqd, nEnq,
                   nDeq, pSnap, cSnap, pPend, cPend, slotSrc, slotTaken, cSrc>>

\* self.set_write_index(index + Wrapping(1)); Ok(())
EnqueueSetWriteIndex ==
    /\ pcP = "set_write_index"
    /\ ring' = set_write_index(ring, Wrapping(pIndex + 1))
    /\ pcP' = "idle" /\ pRes' = "Ok"
    /\ enqd' = Append(enqd, pArgs)
    /\ pDesc' = NoDesc /\ pArgs' = NoDesc /\ pIndex' = 0
    /\ UNCHANGED <<otherVars, pW, consVars, deqd, nEnq, nDeq, pSnap, cSnap, pPend,
                   cPend, slotSrc, slotTaken, cSrc>>

\* The steps of enqueue after its entry.
EnqueueBody ==
    \/ EnqueueIsFullWriteIndex
    \/ EnqueueIsFullReadIndex
    \/ EnqueueWriteIndex
    \/ EnqueueDescriptorWrite
    \/ EnqueueRelease
    \/ EnqueueSetWriteIndex

ProducerStep ==
    \/ EnqueueCall
    \/ EnqueueIsFullWriteIndex
    \/ EnqueueIsFullReadIndex
    \/ EnqueueWriteIndex
    \/ EnqueueDescriptorWrite
    \/ EnqueueRelease
    \/ EnqueueSetWriteIndex

\* ------------------------------------------------------------- dequeue
\* The caller calls dequeue().
DequeueEntry ==
    /\ constructed # "no"
    /\ pcC = "idle"
    /\ pcC' = "is_empty_write_index"
    /\ cRes' = "none" /\ cRet' = NoDesc
    /\ cSnap' = ring /\ cPend' = Pending
    /\ cSrc' = NoDesc
    /\ UNCHANGED <<ring, prodVars, cW, cIndex, cDesc, enqd, deqd, nEnq,
                   pSnap, pPend, slotSrc, slotTaken, used, constructed,
                   notified, nNotify>>

DequeueCall ==
    /\ nDeq < MaxDequeueCalls
    /\ DequeueEntry
    /\ nDeq' = nDeq + 1
    /\ UNCHANGED inOrder

\* is_empty: self.write_index()
DequeueIsEmptyWriteIndex ==
    /\ pcC = "is_empty_write_index"
    /\ cW' = write_index(ring)
    /\ pcC' = "is_empty_read_index"
    /\ UNCHANGED <<otherVars, ring, prodVars, cIndex, cDesc, cRes, cRet, enqd, deqd,
                   nEnq, nDeq, pSnap, cSnap, pPend, cPend, slotSrc,
                   slotTaken, cSrc>>

\* is_empty: self.read_index(), the residue test, and the early return.
DequeueIsEmptyReadIndex ==
    /\ pcC = "is_empty_read_index"
    /\ IF is_empty(cW, read_index(ring))
         THEN pcC' = "idle" /\ cRes' = "RingIsEmpty"
         ELSE pcC' = "read_index" /\ cRes' = cRes
    /\ cW' = 0
    /\ UNCHANGED <<otherVars, ring, prodVars, cIndex, cDesc, cRet, enqd, deqd, nEnq,
                   nDeq, pSnap, cSnap, pPend, cPend, slotSrc, slotTaken, cSrc>>

\* let index = self.read_index();
DequeueReadIndex ==
    /\ pcC = "read_index"
    /\ cIndex' = read_index(ring)
    /\ pcC' = "descriptor_read"
    /\ UNCHANGED <<otherVars, ring, prodVars, cW, cDesc, cRes, cRet, enqd, deqd, nEnq,
                   nDeq, pSnap, cSnap, pPend, cPend, slotSrc, slotTaken, cSrc>>

\* let desc = self.descriptor(index).read();
DequeueDescriptorRead ==
    /\ pcC = "descriptor_read"
    /\ cDesc' = descriptor_read(ring, cIndex)
    /\ cSrc' = slotSrc[linear_index(cIndex)]
    /\ pcC' = "release"
    /\ UNCHANGED <<otherVars, ring, prodVars, cW, cIndex, cRes, cRet, enqd, deqd, nEnq,
                   nDeq, pSnap, cSnap, pPend, cPend, slotSrc, slotTaken>>

\* release();
DequeueRelease ==
    /\ pcC = "release"
    /\ pcC' = "set_read_index"
    /\ UNCHANGED <<otherVars, ring, prodVars, cW, cIndex, cDesc, cRes, cRet, enqd, deqd,
                   nEnq, nDeq, pSnap, cSnap, pPend, cPend, slotSrc,
                   slotTaken, cSrc>>

\* self.set_read_index(index + Wrapping(1)); Ok(desc)
DequeueSetReadIndex ==
    /\ pcC = "set_read_index"
    /\ ring' = set_read_index(ring, Wrapping(cIndex + 1))
    /\ pcC' = "idle" /\ cRes' = "Ok" /\ cRet' = cDesc
    /\ deqd' = Append(deqd, Fields(cDesc))
    /\ slotTaken' = [slotTaken EXCEPT ![linear_index(cIndex)] = TRUE]
    /\ cDesc' = NoDesc /\ cIndex' = 0
    /\ UNCHANGED <<otherVars, prodVars, cW, enqd, nEnq, nDeq, pSnap, cSnap, pPend,
                   cPend, slotSrc, cSrc>>

\* The steps of dequeue after its entry.
DequeueBody ==
    \/ DequeueIsEmptyWriteIndex
    \/ DequeueIsEmptyReadIndex
    \/ DequeueReadIndex
    \/ DequeueDescriptorRead
    \/ DequeueRelease
    \/ DequeueSetReadIndex

ConsumerStep ==
    \/ DequeueCall
    \/ DequeueIsEmptyWriteIndex
    \/ DequeueIsEmptyReadIndex
    \/ DequeueReadIndex
    \/ DequeueDescriptorRead
    \/ DequeueRelease
    \/ DequeueSetReadIndex

\* ------------------------------------------------------------- specifications
\* The two domains run independently: any interleaving of their accesses.
Next == ProducerStep \/ ConsumerStep

Spec == Init /\ [][Next]_vars

\* Calls made one at a time: a call starts only when the other side is idle.
NextSeq ==
    \/ (pcC = "idle" /\ ProducerStep)
    \/ (pcP = "idle" /\ ConsumerStep)

SpecSeq == Init /\ [][NextSeq]_vars

\* ------------------------------------------------------------- worked example
\* The Descriptors of the worked example, in the order it enqueues them.
ExampleArgs ==
    << <<1, 10, 100>>, <<2, 20, 200>>, <<3, 30, 300>>, <<4, 40, 400>> >>

\* The next enqueue of the example.
EnqueueCallExample ==
    /\ nEnq < Len(ExampleArgs)
    /\ EnqueueEntry(ExampleArgs[nEnq + 1])
    /\ nEnq' = nEnq + 1
    /\ inOrder' = (inOrder /\ nDeq = 0)

\* The next dequeue of the example: it makes one fewer than it enqueues.
DequeueCallExample ==
    /\ nDeq < Len(ExampleArgs) - 1
    /\ DequeueEntry
    /\ nDeq' = nDeq + 1
    /\ inOrder' = (inOrder /\ nEnq = Len(ExampleArgs))

\* The calls of the example, one at a time, in any order.
NextExample ==
    \/ (pcC = "idle" /\ EnqueueCallExample)
    \/ (pcC = "idle" /\ EnqueueBody)
    \/ (pcP = "idle" /\ DequeueCallExample)
    \/ (pcP = "idle" /\ DequeueBody)

SpecExample == Init /\ [][NextExample]_vars

\* ------------------------------------------------------------- retry
\* The j-th Descriptor a retrying producer sends.
RetryArgs(j) == ExampleArgs[((j - 1) % Len(ExampleArgs)) + 1]

\* A producer with MaxItems Descriptors to send calls enqueue with the next
\* one, and calls it again with the same one after every RingIsFull.  Here
\* nEnq counts the attempts: a repeated call belongs to the same attempt.
EnqueueCallRetry ==
    /\ Len(enqd) < MaxItems
    /\ EnqueueEntry(RetryArgs(Len(enqd) + 1))
    /\ nEnq' = IF pRes = "RingIsFull" THEN nEnq ELSE nEnq + 1
    /\ UNCHANGED inOrder

\* A consumer that wants as many Descriptors as the producer sends calls
\* dequeue, and calls it again after every RingIsEmpty.
DequeueCallRetry ==
    /\ Len(deqd) < MaxItems
    /\ DequeueEntry
    /\ nDeq' = IF cRes = "RingIsEmpty" THEN nDeq ELSE nDeq + 1
    /\ UNCHANGED inOrder

ProducerRetry == EnqueueCallRetry \/ EnqueueBody

ConsumerRetry == DequeueCallRetry \/ DequeueBody

NextRetry == ProducerRetry \/ ConsumerRetry

\* Both sides are scheduled weakly fairly.
SpecRetry ==
    Init /\ [][NextRetry]_vars /\ WF_vars(ProducerRetry) /\ WF_vars(ConsumerRetry)

\* ------------------------------------------------------------- construction
\* RingBuffers::new(free, used, notify, initialize) over the two rings.
RingBuffersNew ==
    /\ constructed = "no"
    /\ \E initialize_ \in BOOLEAN :
         /\ ring' = RingBuffers_new(ring, used, initialize_).free
         /\ used' = RingBuffers_new(ring, used, initialize_).used
         /\ constructed' = IF initialize_ THEN "initialize" ELSE "keep"
    /\ UNCHANGED <<prodVars, consVars, histVars, notified, nNotify, inOrder>>

\* ------------------------------------------------------------- predicates
\* A caller calls is_empty().
IsEmptyCall ==
    /\ constructed # "no"
    /\ pcC = "idle"
    /\ pcC' = "pub_is_empty_write_index"
    /\ cRes' = "none"
    /\ UNCHANGED <<ring, otherVars, prodVars, histVars, cW, cIndex, cDesc,
                   cRet>>

\* self.write_index()
IsEmptyWriteIndex ==
    /\ pcC = "pub_is_empty_write_index"
    /\ cW' = write_index(ring)
    /\ pcC' = "pub_is_empty_read_index"
    /\ UNCHANGED <<ring, otherVars, prodVars, histVars, cIndex, cDesc, cRes,
                   cRet>>

\* Self::has_nonzero_residue(self.write_index() - self.read_index())
IsEmptyReadIndex ==
    /\ pcC = "pub_is_empty_read_index"
    /\ cRes' = IF is_empty(cW, read_index(ring)) THEN "true" ELSE "false"
    /\ pcC' = "idle" /\ cW' = 0
    /\ UNCHANGED <<ring, otherVars, prodVars, histVars, cIndex, cDesc, cRet>>

\* A caller calls is_full().
IsFullCall ==
    /\ constructed # "no"
    /\ pcP = "idle"
    /\ pcP' = "pub_is_full_write_index"
    /\ pRes' = "none"
    /\ UNCHANGED <<ring, otherVars, consVars, histVars, pDesc, pArgs, pW,
                   pIndex>>

\* self.write_index()
IsFullWriteIndex ==
    /\ pcP = "pub_is_full_write_index"
    /\ pW' = write_index(ring)
    /\ pcP' = "pub_is_full_read_index"
    /\ UNCHANGED <<ring, otherVars, consVars, histVars, pDesc, pArgs, pIndex,
                   pRes>>

\* Self::has_nonzero_residue(self.write_index() - self.read_index()
\*                           + Wrapping(1))
IsFullReadIndex ==
    /\ pcP = "pub_is_full_read_index"
    /\ pRes' = IF is_full(pW, read_index(ring)) THEN "true" ELSE "false"
    /\ pcP' = "idle" /\ pW' = 0
    /\ UNCHANGED <<ring, otherVars, consVars, histVars, pDesc, pArgs, pIndex>>

\* Two shared regions with any index values and stale content, not yet
\* wrapped in a RingBuffers.
InitRaw ==
    /\ ring \in RawRings(0 .. WORD - 1)
    /\ used \in RawRings({0, WORD - 1})
    /\ used.descriptors = ring.descriptors
    /\ constructed = "no"
    /\ NoCalls

NextRaw ==
    \/ RingBuffersNew
    \/ IsEmptyCall
    \/ IsEmptyWriteIndex
    \/ IsEmptyReadIndex
    \/ IsFullCall
    \/ IsFullWriteIndex
    \/ IsFullReadIndex

SpecRaw == InitRaw /\ [][NextRaw]_vars

\* ------------------------------------------------------------- notify
notify_runs_twice ==
    /\ constructed # "no"
    /\ nNotify < MaxNotifyCalls
    /\ nNotify' = nNotify + 1
    /\ notified' = notified + 2
    /\ UNCHANGED <<ring, used, constructed, inOrder, prodVars, consVars,
                   histVars>>

\* RingBuffers::notify: (self.notify)()
notify ==
    /\ constructed # "no"
    /\ nNotify < MaxNotifyCalls
    /\ nNotify' = nNotify + 1
    /\ notified' = notified + 1
    /\ UNCHANGED <<ring, used, constructed, inOrder, prodVars, consVars,
                   histVars>>

\* RingBuffers::notify_mut: (self.notify)()
notify_mut ==
    /\ constructed # "no"
    /\ nNotify < MaxNotifyCalls
    /\ nNotify' = nNotify + 1
    /\ notified' = notified + 1
    /\ UNCHANGED <<ring, used, constructed, inOrder, prodVars, consVars,
                   histVars>>

\* Two zero-filled or stale regions, not yet wrapped in a RingBuffers.
InitPair ==
    /\ ring \in RawRings({0})
    /\ used \in RawRings({0})
    /\ used.descriptors = ring.descriptors
    /\ constructed = "no"
    /\ NoCalls

\* Construction, then enqueue and dequeue one call at a time, with
\* notifications at any moment.
NextPair ==
    \/ RingBuffersNew
    \/ (pcC = "idle" /\ ProducerStep)
    \/ (pcP = "idle" /\ ConsumerStep)
    \/ notify
    \/ notify_mut

SpecPair == InitPair /\ [][NextPair]_vars

\* ------------------------------------------------------------- properties
Min(a, b) == IF a < b THEN a ELSE b

\* C1: every successful dequeue returns a Descriptor that an earlier
\* successful enqueue passed and that no earlier dequeue returned, in the
\* order of the enqueues: the dequeued sequence is a prefix of the enqueued one.
C1_FifoDelivery ==
    /\ Len(deqd) <= Len(enqd)
    /\ \A i \in 1 .. Min(Len(deqd), Len(enqd)) : deqd[i] = enqd[i]

\* C2: on a fresh ring with no dequeue call made, of the enqueue calls made
\* so far the first SIZE - 1 succeeded and every later one failed.
C2_EnqueueUntilFull ==
    (nDeq = 0 /\ pcP = "idle") => Len(enqd) = Min(nEnq, SIZE - 1)

\* C3: the wrapping difference write_index - read_index is the number of
\* Descriptors enqueued and not yet dequeued, and is at most SIZE.
C3_OccupancyIsIndexDifference ==
    /\ Wrapping(write_index(ring) - read_index(ring)) = Pending
    /\ Wrapping(write_index(ring) - read_index(ring)) <= SIZE

\* C6: a dequeue call returns RingIsEmpty exactly when nothing was pending
\* when it was made.
C6_EmptyIffNothingPending ==
    (pcC = "idle" /\ cRes # "none") => (cRes = "RingIsEmpty" <=> cPend = 0)

\* C7: an enqueue call returns RingIsFull when SIZE - 1 Descriptors were
\* pending when it was made, and succeeds when fewer were.
C7_FullIffNoFreeSlot ==
    (pcP = "idle" /\ pRes # "none") =>
        /\ (pPend = SIZE - 1 => pRes = "RingIsFull")
        /\ (pPend < SIZE - 1 => pRes = "Ok")

\* C4: a dequeue that returns the content an enqueue stored returns the
\* (A, L, K) that enqueue was given, len 0 included: no field is altered.
C4_RoundTrip ==
    (cRes = "Ok" /\ cSrc # NoDesc) => Fields(cRet) = cSrc

\* A dequeue has delivered an enqueued Descriptor of len 0.
C4_Witness ==
    cRes = "Ok" /\ cSrc # NoDesc /\ cSrc[2] = 0 /\ len(cRet) = 0

\* C5: the step on which enqueue returns RingIsFull, or dequeue returns
\* RingIsEmpty, leaves both indices and every slot as they were when the
\* call was made.
C5_FailureChangesNothing ==
    [][/\ (pcP # "idle" /\ pcP' = "idle" /\ pRes' = "RingIsFull")
            => ring' = pSnap
       /\ (pcC # "idle" /\ pcC' = "idle" /\ cRes' = "RingIsEmpty")
            => ring' = cSnap]_vars

\* An enqueue has failed and a dequeue has failed.
C5_Witness ==
    /\ pcP = "idle" /\ pRes = "RingIsFull"
    /\ pcC = "idle" /\ cRes = "RingIsEmpty"

\* C8: no step of enqueue changes read_index, no step of dequeue changes
\* write_index or a slot; write_index changes only on a step of enqueue and
\* read_index only on a step of dequeue.
C8_SingleWriter ==
    [][/\ pcP' # pcP => ring'.read_index = ring.read_index
       /\ pcC' # pcC => /\ ring'.write_index = ring.write_index
                        /\ ring'.descriptors = ring.descriptors
       /\ ring'.write_index # ring.write_index => pcP' # pcP
       /\ ring'.read_index # ring.read_index => pcC' # pcC]_vars

\* Both sides have had successful and failing calls.
C8_Witness ==
    /\ Len(enqd) >= 1 /\ Len(deqd) >= 2
    /\ pRes = "RingIsFull" /\ cRes = "RingIsEmpty"

\* C9: when dequeue reads its slot, the enqueue that fills that logical
\* index (the next one in dequeue order) has stored its Descriptor and
\* advanced write_index.
C9_ReadsOnlyPublished ==
    pcC = "descriptor_read" => Len(enqd) > Len(deqd)

\* The slot holds an enqueued Descriptor the consumer has not advanced past.
SlotPending(s) == slotSrc[s] # NoDesc /\ ~slotTaken[s]

\* The consumer has read the slot and not yet advanced read_index.
ConsumerHolds(s) ==
    pcC \in {"release", "set_read_index"} /\ linear_index(cIndex) = s

\* C10: when enqueue stores to a slot, the slot holds no pending Descriptor
\* and the consumer is not between reading it and advancing read_index.
C10_NoOverwrite ==
    pcP = "descriptor_write" =>
        /\ ~SlotPending(linear_index(pIndex))
        /\ ~ConsumerHolds(linear_index(pIndex))

\* enqueue has just reused a slot that held an enqueued Descriptor, while a
\* dequeue call is in progress.
C10_Witness ==
    pcP = "release" /\ Len(enqd) >= SIZE /\ pcC # "idle"

\* An index has been driven past the largest index value and has wrapped.
Wrapped == Len(deqd) >= WORD \/ Len(enqd) >= WORD

\* C11: once an index has wrapped, the occupancy bound (the index difference
\* is the pending count, at most SIZE; an enqueue made with SIZE - 1 pending
\* fails, one made with fewer succeeds) and FIFO delivery hold as before.
C11_WrapKeepsOccupancyAndFifo ==
    Wrapped =>
        /\ Wrapping(write_index(ring) - read_index(ring)) = Pending
        /\ Wrapping(write_index(ring) - read_index(ring)) <= SIZE
        /\ (pcP = "idle" /\ pRes # "none") =>
               (pRes = "RingIsFull" <=> pPend = SIZE - 1)
        /\ Len(deqd) <= Len(enqd)
        /\ \A i \in 1 .. Min(Len(deqd), Len(enqd)) : deqd[i] = enqd[i]

\* C12: the worked example.  With the calls made in its order on a fresh
\* ring of SIZE 4: the first three enqueues succeed, is_full() is then
\* false, the fourth enqueue fails with RingIsFull, and the dequeues return
\* the three Descriptors in the order of their enqueues, fields unchanged.
C12_WorkedExample ==
    inOrder =>
        /\ (pcP = "idle" /\ nDeq = 0) =>
               enqd = SubSeq(ExampleArgs, 1, Min(nEnq, 3))
        /\ (pcP = "idle" /\ nDeq = 0 /\ nEnq = 3) =>
               ~is_full(write_index(ring), read_index(ring))
        /\ (pcP = "idle" /\ nDeq = 0 /\ nEnq = 4) => pRes = "RingIsFull"
        /\ pcC = "idle" => deqd = SubSeq(ExampleArgs, 1, nDeq)

\* C13: the occupancy predicates are exactly the residue tests.  For every
\* pair of index values (w, r), is_empty() returns
\* ((w - r) mod 2^w) mod SIZE # 0 and is_full() returns
\* ((w - r + 1) mod 2^w) mod SIZE # 0; is_empty() is false whenever
\* write_index = read_index.
C13_PredicatesAreResidueTests ==
    /\ (pcC = "idle" /\ cRes \in {"true", "false"}) =>
          /\ (cRes = "true") <=>
               (((ring.write_index - ring.read_index) % WORD) % SIZE # 0)
          /\ ring.write_index = ring.read_index => cRes = "false"
    /\ (pcP = "idle" /\ pRes \in {"true", "false"}) =>
          ((pRes = "true") <=>
               (((ring.write_index - ring.read_index + 1) % WORD) % SIZE # 0))

C13_Witness ==
    /\ pcC = "idle" /\ cRes = "false"
    /\ pcP = "idle" /\ pRes = "true"
    /\ ring.write_index = ring.read_index
    /\ ring.write_index # 0

\* C14: RingBuffers::new with initialize = true leaves write_index = 0 and
\* read_index = 0 in both rings; with initialize = false it changes no index
\* and no descriptor slot of either ring, whatever their prior contents.
C14_ConstructorFrame ==
    [][(constructed = "no" /\ constructed' # "no") =>
          /\ constructed' = "initialize" =>
               /\ ring'.write_index = 0 /\ ring'.read_index = 0
               /\ used'.write_index = 0 /\ used'.read_index = 0
          /\ constructed' = "keep" => (ring' = ring /\ used' = used)]_vars

C14_Witness ==
    /\ constructed = "initialize"
    /\ pSnap.write_index # 0 /\ pSnap.read_index # 0
    /\ ring.write_index = 0 /\ ring.read_index = 0
    /\ used.write_index = 0 /\ used.read_index = 0

\* C15: notification is decoupled from queueing.  No step of enqueue or
\* dequeue and no constructor runs the notifier; the notifier runs exactly
\* once per call of notify() or notify_mut().
C15_NotifyDecoupled ==
    [][/\ nNotify' = nNotify => notified' = notified
       /\ nNotify' # nNotify =>
            (nNotify' = nNotify + 1 /\ notified' = notified + 1)]_vars

C15_Witness ==
    /\ Len(enqd) >= 2
    /\ nNotify = 1 /\ notified = 1

\* Position of a call in its straight-line code.
Rank(pc) ==
    CASE pc \in {"is_full_write_index", "is_empty_write_index"} -> 1
      [] pc \in {"is_full_read_index", "is_empty_read_index"} -> 2
      [] pc \in {"write_index", "read_index"} -> 3
      [] pc \in {"descriptor_write", "descriptor_read"} -> 4
      [] pc = "release" -> 5
      [] pc \in {"set_write_index", "set_read_index"} -> 6
      [] OTHER -> 0

\* C16: enqueue and dequeue never block.  Whatever the peer has done or not
\* done, a call in progress always has a step of its own to take; each of
\* its steps moves it forward in its code, so it returns after at most six
\* of them, with Ok, RingIsFull or RingIsEmpty.
C16_NeverBlock ==
    /\ [](pcP # "idle" => ENABLED EnqueueBody)
    /\ [](pcC # "idle" => ENABLED DequeueBody)
    /\ [][/\ EnqueueBody =>
               \/ Rank(pcP') > Rank(pcP)
               \/ pcP' = "idle" /\ pRes' \in {"Ok", "RingIsFull"}
          /\ DequeueBody =>
               \/ Rank(pcC') > Rank(pcC)
               \/ pcC' = "idle" /\ cRes' \in {"Ok", "RingIsEmpty"}]_vars

C16_Witness ==
    /\ pcP = "idle" /\ pRes = "RingIsFull"
    /\ pcC = "release"
    /\ Len(deqd) > 0 /\ Len(enqd) > 0

\* C17: a successful enqueue(desc) called with write_index = w stores desc
\* in physical slot w mod SIZE, leaves every other slot unchanged, and sets
\* write_index to (w + 1) mod 2^w; the slot store comes before the
\* write_index store in program order.
C17_EnqueueEffect ==
    [][/\ (EnqueueBody /\ pcP = "descriptor_write") =>
             ring' = [ring EXCEPT
                        !.descriptors[pSnap.write_index % SIZE] = pDesc]
       /\ (EnqueueBody /\ pcP # "descriptor_write") =>
             ring'.descriptors = ring.descriptors
       /\ (EnqueueBody /\ pcP' = "idle" /\ pRes' = "Ok") =>
             /\ pcP = "set_write_index"
             /\ ring.descriptors[pSnap.write_index % SIZE] = pDesc
             /\ ring.write_index = pSnap.write_index
             /\ ring' = [ring EXCEPT
                           !.write_index = (pSnap.write_index + 1) % WORD]
       /\ (EnqueueBody /\ pcP # "set_write_index") =>
             ring'.write_index = ring.write_index]_vars

C17_Witness ==
    /\ pcP = "idle" /\ pRes = "Ok"
    /\ pSnap.write_index = WORD - 1
    /\ ring.write_index = 0
    /\ pcC # "idle"

\* C18: a successful dequeue() called with read_index = r returns the
\* Descriptor held in physical slot r mod SIZE at the time of the read and
\* sets read_index to (r + 1) mod 2^w; the slot read comes before the
\* read_index store in program order.
C18_DequeueEffect ==
    [][/\ (DequeueBody /\ pcC = "descriptor_read") =>
             /\ cDesc' = ring.descriptors[cSnap.read_index % SIZE]
             /\ ring' = ring
       /\ (DequeueBody /\ pcC' = "idle" /\ cRes' = "Ok") =>
             /\ pcC = "set_read_index"
             /\ cRet' = cDesc
             /\ ring.read_index = cSnap.read_index
             /\ ring' = [ring EXCEPT
                           !.read_index = (cSnap.read_index + 1) % WORD]
       /\ (DequeueBody /\ pcC # "set_read_index") =>
             /\ ring'.read_index = ring.read_index
             /\ cDesc' # cDesc => pcC = "descriptor_read"]_vars

C18_Witness ==
    /\ pcC = "idle" /\ cRes = "Ok"
    /\ cSnap.read_index = WORD - 1
    /\ ring.read_index = 0
    /\ cRet # NoDesc
    /\ pcP # "idle"

\* C19: slot selection is continuous across index wraparound, SIZE being a
\* power of two that divides the index modulus: every index store moves the
\* slot of the index to the next slot modulo SIZE, the store that wraps the
\* index to 0 included, so the k-th Descriptor stored or taken uses slot
\* (k - 1) mod SIZE with no slot skipped or repeated and no index reset.
C19_SlotContinuity ==
    /\ [](pcP = "descriptor_write" =>
            linear_index(pIndex) = Len(enqd) % SIZE)
    /\ [](pcC = "descriptor_read" =>
            linear_index(cIndex) = Len(deqd) % SIZE)
    /\ [][/\ ring'.write_index # ring.write_index =>
               /\ ring'.write_index = (ring.write_index + 1) % WORD
               /\ linear_index(ring'.write_index) =
                     (linear_index(ring.write_index) + 1) % SIZE
          /\ ring'.read_index # ring.read_index =>
               /\ ring'.read_index = (ring.read_index + 1) % WORD
               /\ linear_index(ring'.read_index) =
                     (linear_index(ring.read_index) + 1) % SIZE]_vars

C19_Witness ==
    /\ pcC = "descriptor_read"
    /\ Len(deqd) = WORD
    /\ cIndex = 0
    /\ ring.write_index = 0 /\ Len(enqd) = WORD

\* C20: on a freshly initialized ring on which nothing has been enqueued,
\* is_empty() is false, and the first dequeue() does not return RingIsEmpty:
\* it returns the content slot 0 had and advances read_index from 0 to 1.
C20_FreshRingDequeues ==
    /\ (Len(enqd) = 0 /\ Len(deqd) = 0) =>
          /\ ring.write_index = 0 /\ ring.read_index = 0
          /\ ~is_empty(write_index(ring), read_index(ring))
    /\ (nDeq = 1 /\ pcC = "idle") =>
          /\ cRes = "Ok"
          /\ cSnap.read_index = 0
          /\ cRet = cSnap.descriptors[0]
          /\ ring.read_index = 1

C20_Witness ==
    /\ nDeq = 1 /\ pcC = "idle" /\ cRes = "Ok"
    /\ Len(enqd) = 0
    /\ cRet = ring.descriptors[0]
    /\ cookie(cRet) # 0
    /\ ring.read_index = 1

\* C21: in every state reachable from a fresh ring by any interleaving of
\* enqueue and dequeue calls, (write_index - read_index) mod 2^w is 0 or
\* 2^w - 1; successful dequeues and successful enqueues strictly alternate,
\* starting with a dequeue; and the first enqueue on a fresh ring fails with
\* RingIsFull.
C21_DifferenceIsZeroOrMinusOne ==
    /\ [](Wrapping(ring.write_index - ring.read_index) \in {0, WORD - 1})
    /\ [](Len(deqd) - Len(enqd) \in {0, 1})
    /\ []((nEnq = 1 /\ pcP = "idle" /\ Len(deqd) = 0) => pRes = "RingIsFull")
    /\ [][/\ Len(deqd') # Len(deqd) => Len(deqd) = Len(enqd)
          /\ Len(enqd') # Len(enqd) => Len(deqd) = Len(enqd) + 1]_vars

C21_Witness ==
    /\ Wrapping(ring.write_index - ring.read_index) = WORD - 1
    /\ Len(enqd) >= SIZE /\ Len(deqd) = Len(enqd) + 1
    /\ pcP = "idle" /\ pRes = "RingIsFull"
    /\ pcC = "idle" /\ cRes = "RingIsEmpty"

\* C22: the delivery lag.  On a fresh ring, counting from 0, the k-th
\* successful dequeue returns for k >= SIZE exactly the Descriptor passed to
\* the (k - SIZE)-th successful enqueue, and for k < SIZE the initial,
\* never enqueued, content of slot k.  (The initial content d of the region
\* is the one the slots not yet stored to still hold.)
C22_DeliveryLag ==
    /\ \A k \in SIZE .. Len(deqd) - 1 :
          /\ k - SIZE + 1 <= Len(enqd)
          /\ deqd[k + 1] = enqd[k - SIZE + 1]
    /\ \E d \in StaleRegions(Slots) :
          /\ \A s \in Slots :
                slotSrc[s] = NoDesc => ring.descriptors[s] = d[s]
          /\ \A k \in 0 .. Min(SIZE, Len(deqd)) - 1 :
                deqd[k + 1] = Fields(d[k])
          /\ (pcC = "idle" /\ cRes = "Ok" /\ Len(deqd) <= SIZE) =>
                (cSrc = NoDesc /\ cRet = d[Len(deqd) - 1])
    /\ (pcC = "idle" /\ cRes = "Ok" /\ Len(deqd) > SIZE) =>
          (cSrc = enqd[Len(deqd) - SIZE] /\ Fields(cRet) = cSrc)

C22_Witness ==
    /\ Len(deqd) = WORD + 1
    /\ pcC = "idle" /\ cRes = "Ok"
    /\ deqd[1] = <<1, 0, 100>> /\ enqd[1] = <<2, 20, 200>>
    /\ deqd[SIZE + 1] = enqd[1]
    /\ deqd[WORD + 1] = enqd[WORD + 1 - SIZE]

\* C23: no reachable state has both operations failing.  On the indices of
\* any reachable state is_full() and is_empty() are not both true, and a
\* ring state never has both an enqueue that returned RingIsFull on it and
\* a dequeue that returned RingIsEmpty on it.
C23_OneOperationSucceeds ==
    /\ ~(/\ is_full(write_index(ring), read_index(ring))
         /\ is_empty(write_index(ring), read_index(ring)))
    /\ ~(/\ pcP = "idle" /\ pRes = "RingIsFull" /\ pSnap = ring
         /\ pcC = "idle" /\ cRes = "RingIsEmpty" /\ cSnap = ring)

C23_Witness ==
    /\ pcP = "idle" /\ pRes = "RingIsFull" /\ pSnap = ring
    /\ pcC = "idle" /\ cRes = "Ok"
    /\ is_full(write_index(ring), read_index(ring))
    /\ ~is_empty(write_index(ring), read_index(ring))
    /\ Len(enqd) >= SIZE

=============================================================================
